---- MODULE Spec2Model ----
(***************************************************************************)
(* Model of src/app.py: the reading-log service (/save, /logs, /init-db)   *)
(* over one table kindle_logs and a psycopg2 SimpleConnectionPool.         *)
(*                                                                         *)
(* A request handler is modelled in two steps: the part up to and          *)
(* including get_db_connection() (Begin), and the part that runs while the *)
(* connection is held, through the finally clause (Finish).  Between the   *)
(* two steps other requests interleave, so several connections can be      *)
(* checked out at once.                                                    *)
(***************************************************************************)
EXTENDS Integers, Sequences, FiniteSets, TLC

\* ------------------------------------------------------------------ bounds
\* Rows the table may already hold when the process starts.
MaxRows == 2
\* Concurrent requests in the scenario that races two writers.
MaxWorkers == 2

\* ------------------------------------------------------- program constants
\* SimpleConnectionPool(minconn=1, maxconn=5, ...)
maxconn == 5

\* Python None, an absent JSON key / query parameter, and SQL NULL.
None == "<None>"

\* Request inputs: token (query parameter), title and url (JSON body).
AllTokens == {None, "", "a", "b"}
AllTitles == {None, "", "X", "Y"}
AllUrls == {None, ""}
StoredTokens == {"a", "b"}
StoredTitles == {"X", "Y"}

\* Rows the table may hold after the insert branch has run.
TableCap == MaxRows + 2

\* A run of the service is explored in one of four scopes: one worker with
\* every input, every initial schema and at most one stored row; one worker
\* with valid requests for one token over every initial table of up to
\* MaxRows rows (of both tokens); MaxWorkers concurrent workers racing on one
\* token; and maxconn + 1 concurrent workers on minimal inputs, enough to
\* exhaust the pool.
Schemas == {"absent", "nourl", "full"}

Scenarios ==
    { [workers |-> 1, rows |-> 1, schemas |-> Schemas,
       tokens |-> AllTokens, titles |-> AllTitles, urls |-> AllUrls],
      [workers |-> 1, rows |-> MaxRows, schemas |-> {"full"},
       tokens |-> {"a"}, titles |-> StoredTitles, urls |-> AllUrls],
      [workers |-> MaxWorkers, rows |-> 1, schemas |-> {"full"},
       tokens |-> {"a"}, titles |-> {"X"}, urls |-> {None}],
      [workers |-> maxconn + 1, rows |-> 0, schemas |-> {"full"},
       tokens |-> {"a"}, titles |-> {"X"}, urls |-> {None}] }

VARIABLES
    scn,            \* the scope of this run (never changes)
    database_url,   \* os.environ has DATABASE_URL
    phase,          \* "boot" | "serving" | "aborted"
    db_pool,        \* the global db_pool is a pool (TRUE) or None (FALSE)
    schema,         \* kindle_logs is "absent" | "nourl" (no url column) | "full"
    table,          \* committed rows of kindle_logs, in insertion order
    used,           \* number of connections checked out of the pool (len(pool._used))
    req,            \* per worker: the request it is handling
    resp            \* the response returned by the latest step, if any

vars == <<scn, database_url, phase, db_pool, schema, table, used, req, resp>>

\* ------------------------------------------------------------- the table
Max(S) == CHOOSE x \in S : \A y \in S : y <= x

\* id SERIAL PRIMARY KEY: the next value of the sequence.
NextId(tbl) == IF tbl = <<>> THEN 1 ELSE Max({tbl[i].id : i \in 1..Len(tbl)}) + 1

\* created_at TIMESTAMP DEFAULT CURRENT_TIMESTAMP never runs backwards.
LastTime(tbl) == IF tbl = <<>> THEN 1 ELSE Max({tbl[i].created_at : i \in 1..Len(tbl)})

Newer(r1, r2) ==
    \/ r1.created_at > r2.created_at
    \/ r1.created_at = r2.created_at /\ r1.id > r2.id

\* WITH last_log AS (SELECT title, url FROM kindle_logs WHERE token = %s
\*                   ORDER BY created_at DESC, id DESC LIMIT 1)
LastLog(tbl, token) ==
    LET S == {i \in 1..Len(tbl) : tbl[i].token = token}
    IN  IF S = {} THEN <<>>
        ELSE <<tbl[CHOOSE i \in S : \A j \in S \ {i} : Newer(tbl[i], tbl[j])]>>

\* SQL "=": NULL compared with anything is not true.
SqlEq(a, b) == a # None /\ b # None /\ a = b

\* The statement of save_log with its seven placeholders bound to p[1..7]:
\* INSERT ... SELECT %s, %s, %s WHERE NOT EXISTS (SELECT 1 FROM last_log WHERE
\* last_log.title = %s AND ((last_log.url IS NULL AND %s IS NULL) OR
\* (last_log.url = %s))) RETURNING id, created_at
ConditionalInsert(tbl, p, ts) ==
    LET last == LastLog(tbl, p[1])
        dup == /\ last # <<>>
               /\ SqlEq(last[1].title, p[5])
               /\ \/ last[1].url = None /\ p[6] = None
                  \/ SqlEq(last[1].url, p[7])
        row == [id |-> NextId(tbl), token |-> p[2], title |-> p[3],
                url |-> p[4], created_at |-> ts]
    IN  IF dup THEN [table |-> tbl, returning |-> <<>>]
        ELSE [table |-> Append(tbl, row), returning |-> <<row>>]

\* The SELECT of get_logs without its WHERE token = %s.
RowsOf_AllTokens(tbl, token) == tbl

\* SELECT id, title, url, created_at FROM kindle_logs WHERE token = %s
\* ORDER BY created_at DESC: every order of the token's rows in which
\* created_at does not increase (rows with equal created_at come in any order).
RowsOf(tbl, token) == SelectSeq(tbl, LAMBDA r : r.token = token)

SelectLogs(tbl, token) ==
    LET rows == RowsOf(tbl, token)
        n == Len(rows)
    IN  { [i \in 1..n |-> rows[f[i]]] :
            f \in { g \in Permutations(1..n) :
                      \A i, j \in 1..n :
                          i < j => rows[g[i]].created_at >= rows[g[j]].created_at } }

\* --------------------------------------------------------------- the pool
\* getconn() without the maxconn check.
GetConn_NoLimit(u) == [ok |-> TRUE, conn |-> 1, used |-> u + 1]

\* db_pool.getconn(): a free connection, or PoolError("connection pool
\* exhausted") when maxconn connections are checked out.  It never waits.
GetConn(u) ==
    IF u >= maxconn
    THEN [ok |-> FALSE, conn |-> 0, used |-> u]
    ELSE [ok |-> TRUE, conn |-> 1, used |-> u + 1]

\* release_db_connection(conn) that does not hand the connection back.
PutConn_Leak(u, conn) == [ok |-> TRUE, used |-> u]

\* release_db_connection(conn): db_pool.putconn(conn); a PoolError (the
\* connection is not checked out) is logged and swallowed.  conn is the
\* number of checked-out connections the caller holds (0 or 1).
PutConn(u, conn) ==
    IF conn > 0 /\ u > 0
    THEN [ok |-> TRUE, used |-> u - conn]
    ELSE [ok |-> FALSE, used |-> u]

\* ------------------------------------------------------------ parameters
\* `v is None` in place of `not v`.
Falsy_NoneOnly(v) == v = None

\* Python truthiness of an Optional[str]: `not v`.
Falsy(v) == v = None \/ v = ""

\* The %s placeholders of the /save statement, in order of appearance, and
\* the tuple handed to cur.execute with it.
SaveQuery == <<"token", "token", "title", "url", "title", "url", "url">>

SaveArgs(token, title, url) == <<token, title, url>>

\* The /logs statement and its tuple.
LogsQuery == <<"token">>

LogsArgs(token) == <<token>>

\* cur.execute(query, args) binds the arguments client-side before anything
\* is sent: too few arguments raise IndexError (tuple index out of range),
\* too many raise psycopg2.ProgrammingError (not all arguments converted).
Mogrify(query, args) ==
    IF Len(args) < Len(query) THEN "IndexError"
    ELSE IF Len(args) > Len(query) THEN "ProgrammingError"
    ELSE "ok"

\* ------------------------------------------------------------- responses
\* No response.  The fields after created_at/logs are bookkeeping about the
\* request that was answered: connections it acquired, the transaction status
\* of each connection it handed to putconn, putconn calls that failed,
\* statements it sent to the server, and whether it found the pool exhausted.
NoResp ==
    [op |-> "none", token |-> None, title |-> None, url |-> None,
     again |-> FALSE, after |-> None,
     status |-> 0, message |-> "", id |-> 0, created_at |-> 0, logs |-> <<>>,
     acquired |-> 0, puts |-> <<>>, putErrors |-> 0, stmts |-> 0,
     poolFull |-> FALSE]

Idle ==
    [op |-> "idle", token |-> None, title |-> None, url |-> None,
     conn |-> 0, again |-> FALSE, after |-> None]

Slots == 1..scn.workers

\* The response returned by the step before this one is that of a /save with
\* a valid token and title, and no request is being handled: the request that
\* arrives now directly follows that /save.
FollowsSave ==
    /\ resp.op = "save"
    /\ ~Falsy(resp.token) /\ ~Falsy(resp.title)
    /\ \A x \in Slots : req[x].op = "idle"

\* A /save that directly follows a /save with the same token, title and url.
SaveAgain(token, title, url) ==
    FollowsSave /\ resp.token = token /\ resp.title = title /\ resp.url = url

\* The title of the /save with the same token that a /logs directly follows.
LogsAfter(token) ==
    IF FollowsSave /\ resp.token = token THEN resp.title ELSE None

\* ----------------------------------------------------------------- /save
\* save_log validating the token only ("if not token").
SaveEntry_NoTitleCheck(pool, u, token, title) ==
    IF ~pool
    THEN [proceed |-> FALSE, status |-> 500, message |-> "Database connection failed",
          conn |-> 0, used |-> u, poolFull |-> FALSE]
    ELSE IF Falsy(token)
    THEN [proceed |-> FALSE, status |-> 400, message |-> "Token or title missing",
          conn |-> 0, used |-> u, poolFull |-> FALSE]
    ELSE LET g == GetConn(u)
         IN  IF g.ok
             THEN [proceed |-> TRUE, status |-> 0, message |-> "",
                   conn |-> g.conn, used |-> g.used, poolFull |-> FALSE]
             ELSE [proceed |-> FALSE, status |-> 500, message |-> "Internal server error",
                   conn |-> 0, used |-> u, poolFull |-> TRUE]

\* save_log up to get_db_connection(): the pool check, the validation and
\* the acquisition.  "answer" is the early response, if the request ends here.
SaveEntry(pool, u, token, title) ==
    IF ~pool
    THEN [proceed |-> FALSE, status |-> 500, message |-> "Database connection failed",
          conn |-> 0, used |-> u, poolFull |-> FALSE]
    ELSE IF Falsy(token) \/ Falsy(title)
    THEN [proceed |-> FALSE, status |-> 400, message |-> "Token or title missing",
          conn |-> 0, used |-> u, poolFull |-> FALSE]
    ELSE LET g == GetConn(u)
         IN  IF g.ok
             THEN [proceed |-> TRUE, status |-> 0, message |-> "",
                   conn |-> g.conn, used |-> g.used, poolFull |-> FALSE]
             ELSE [proceed |-> FALSE, status |-> 500, message |-> "Internal server error",
                   conn |-> 0, used |-> u, poolFull |-> TRUE]

\* save_log that binds all seven parameters, inserts and commits, and then
\* fails while it builds the response.
SaveTry_ErrorAfterCommit(tbl, sch, token, title, url, fault, ts) ==
    LET st == ConditionalInsert(tbl, <<token, token, title, url, title, url, url>>, ts)
    IN  [table |-> st.table, status |-> 500, message |-> "Internal server error",
         id |-> 0, created_at |-> 0, txn |-> "idle", stmts |-> 1]

\* save_log while it holds the connection: the with-block and the two except
\* clauses.  txn is the connection's transaction status when the finally
\* clause runs.
SaveTry(tbl, sch, token, title, url, fault, ts) ==
    LET bind == Mogrify(SaveQuery, SaveArgs(token, title, url))
        fail(msg, n) == [table |-> tbl, status |-> 500, message |-> msg, id |-> 0,
                         created_at |-> 0, txn |-> "idle", stmts |-> n]
    IN  IF bind = "IndexError" THEN fail("Internal server error", 0)
        ELSE IF bind = "ProgrammingError" THEN fail("Database error", 0)
        ELSE IF fault \/ sch # "full" THEN fail("Database error", 1)
        ELSE LET st == ConditionalInsert(tbl, SaveArgs(token, title, url), ts)
             IN  IF st.returning = <<>>
                 THEN fail("Internal server error", 1)
                 ELSE [table |-> st.table, status |-> 200, message |-> "",
                       id |-> st.returning[1].id,
                       created_at |-> st.returning[1].created_at,
                       txn |-> "idle", stmts |-> 1]

SaveBegin(s, token, title, url) ==
    /\ phase = "serving"
    /\ req[s].op = "idle"
    /\ LET e == SaveEntry(db_pool, used, token, title)
       IN  /\ used' = e.used
           /\ req' = IF e.proceed
                     THEN [req EXCEPT ![s] =
                              [op |-> "save", token |-> token, title |-> title,
                               url |-> url, conn |-> e.conn,
                               again |-> SaveAgain(token, title, url),
                               after |-> None]]
                     ELSE req
           /\ resp' = IF e.proceed THEN NoResp
                      ELSE [NoResp EXCEPT !.op = "save", !.token = token,
                               !.title = title, !.url = url,
                               !.status = e.status, !.message = e.message,
                               !.poolFull = e.poolFull]
    /\ UNCHANGED <<scn, database_url, phase, db_pool, schema, table>>

SaveFinish(s, fault, ts) ==
    /\ phase = "serving"
    /\ req[s].op = "save"
    /\ Len(table) < TableCap
    /\ LET r == req[s]
           t == SaveTry(table, schema, r.token, r.title, r.url, fault, ts)
           p == PutConn(used, r.conn)
       IN  /\ table' = t.table
           /\ used' = p.used
           /\ req' = [req EXCEPT ![s] = Idle]
           /\ resp' = [NoResp EXCEPT !.op = "save", !.token = r.token,
                          !.title = r.title, !.url = r.url, !.again = r.again,
                          !.status = t.status, !.message = t.message,
                          !.id = t.id, !.created_at = t.created_at,
                          !.acquired = 1, !.puts = <<t.txn>>,
                          !.putErrors = IF p.ok THEN 0 ELSE 1,
                          !.stmts = t.stmts]
    /\ UNCHANGED <<scn, database_url, phase, db_pool, schema>>

\* ----------------------------------------------------------------- /logs
\* get_logs without its "if not token" check.
LogsEntry_NoTokenCheck(pool, u, token) ==
    IF ~pool
    THEN [proceed |-> FALSE, status |-> 500, message |-> "Database connection failed",
          conn |-> 0, used |-> u, poolFull |-> FALSE]
    ELSE LET g == GetConn(u)
         IN  IF g.ok
             THEN [proceed |-> TRUE, status |-> 0, message |-> "",
                   conn |-> g.conn, used |-> g.used, poolFull |-> FALSE]
             ELSE [proceed |-> FALSE, status |-> 500, message |-> "Internal server error",
                   conn |-> 0, used |-> u, poolFull |-> TRUE]

\* get_logs up to get_db_connection().
LogsEntry(pool, u, token) ==
    IF ~pool
    THEN [proceed |-> FALSE, status |-> 500, message |-> "Database connection failed",
          conn |-> 0, used |-> u, poolFull |-> FALSE]
    ELSE IF Falsy(token)
    THEN [proceed |-> FALSE, status |-> 400, message |-> "Token missing",
          conn |-> 0, used |-> u, poolFull |-> FALSE]
    ELSE LET g == GetConn(u)
         IN  IF g.ok
             THEN [proceed |-> TRUE, status |-> 0, message |-> "",
                   conn |-> g.conn, used |-> g.used, poolFull |-> FALSE]
             ELSE [proceed |-> FALSE, status |-> 500, message |-> "Internal server error",
                   conn |-> 0, used |-> u, poolFull |-> TRUE]

\* The JSON item built from one fetched row.
LogItem(row) ==
    [id |-> row.id, title |-> row.title, url |-> row.url, created_at |-> row.created_at]

\* get_logs while it holds the connection; rows is what cur.fetchall() returns
\* when the statement succeeds.  Neither the success path nor the
\* psycopg2.Error handler commits or rolls back.
LogsTry(sch, token, fault, rows) ==
    LET bind == Mogrify(LogsQuery, LogsArgs(token))
    IN  IF bind = "IndexError"
        THEN [status |-> 500, message |-> "Internal server error", logs |-> <<>>,
              txn |-> "idle", stmts |-> 0]
        ELSE IF bind = "ProgrammingError"
        THEN [status |-> 500, message |-> "Database error", logs |-> <<>>,
              txn |-> "idle", stmts |-> 0]
        ELSE IF fault \/ sch # "full"
        THEN [status |-> 500, message |-> "Database error", logs |-> <<>>,
              txn |-> "inerror", stmts |-> 1]
        ELSE [status |-> 200, message |-> "",
              logs |-> [i \in 1..Len(rows) |-> LogItem(rows[i])],
              txn |-> "intrans", stmts |-> 1]

LogsBegin(s, token) ==
    /\ phase = "serving"
    /\ req[s].op = "idle"
    /\ LET e == LogsEntry(db_pool, used, token)
       IN  /\ used' = e.used
           /\ req' = IF e.proceed
                     THEN [req EXCEPT ![s] =
                              [op |-> "logs", token |-> token, title |-> None,
                               url |-> None, conn |-> e.conn, again |-> FALSE,
                               after |-> LogsAfter(token)]]
                     ELSE req
           /\ resp' = IF e.proceed THEN NoResp
                      ELSE [NoResp EXCEPT !.op = "logs", !.token = token,
                               !.status = e.status, !.message = e.message,
                               !.poolFull = e.poolFull]
    /\ UNCHANGED <<scn, database_url, phase, db_pool, schema, table>>

LogsFinish(s, fault, rows) ==
    /\ phase = "serving"
    /\ req[s].op = "logs"
    /\ LET r == req[s]
           t == LogsTry(schema, r.token, fault, rows)
           p == PutConn(used, r.conn)
       IN  /\ used' = p.used
           /\ req' = [req EXCEPT ![s] = Idle]
           /\ resp' = [NoResp EXCEPT !.op = "logs", !.token = r.token,
                          !.after = r.after,
                          !.status = t.status, !.message = t.message,
                          !.logs = t.logs,
                          !.acquired = 1, !.puts = <<t.txn>>,
                          !.putErrors = IF p.ok THEN 0 ELSE 1,
                          !.stmts = t.stmts]
    /\ UNCHANGED <<scn, database_url, phase, db_pool, schema, table>>

\* ---------------------------------------------------------------- schema
\* create_table_if_not_exists(): CREATE TABLE IF NOT EXISTS kindle_logs (id,
\* token, title, url, created_at); commit, or rollback on an exception;
\* putconn in the finally clause when a connection was obtained.
CreateTable(pool, u, sch, fault) ==
    LET g == GetConn(u)
        p == PutConn(g.used, g.conn)
        done(ok, sc, n) == [ok |-> ok, schema |-> sc, used |-> p.used, acquired |-> 1,
                            puts |-> <<"idle">>,
                            putErrors |-> IF p.ok THEN 0 ELSE 1, stmts |-> n]
    IN  IF ~pool \/ ~g.ok
        THEN [ok |-> FALSE, schema |-> sch, used |-> u, acquired |-> 0,
              puts |-> <<>>, putErrors |-> 0, stmts |-> 0]
        ELSE IF fault THEN done(FALSE, sch, 1)
        ELSE done(TRUE, IF sch = "absent" THEN "full" ELSE sch, 1)

\* add_url_column_if_not_exists() with the test of the DO block inverted
\* (IF EXISTS): the column is added only when it is already there.
AddUrlColumn_Inverted(pool, u, sch, fault) ==
    LET g == GetConn(u)
        p == PutConn(g.used, g.conn)
        done(ok, sc, n) == [ok |-> ok, schema |-> sc, used |-> p.used, acquired |-> 1,
                            puts |-> <<"idle">>,
                            putErrors |-> IF p.ok THEN 0 ELSE 1, stmts |-> n]
    IN  IF ~pool \/ ~g.ok
        THEN [ok |-> FALSE, schema |-> sch, used |-> u, acquired |-> 0,
              puts |-> <<>>, putErrors |-> 0, stmts |-> 0]
        ELSE IF fault \/ sch = "full" THEN done(FALSE, sch, 1)
        ELSE done(TRUE, sch, 1)

\* add_url_column_if_not_exists(): the DO block adds the url column when
\* information_schema lists none for kindle_logs; ALTER TABLE fails when the
\* table itself is missing.
AddUrlColumn(pool, u, sch, fault) ==
    LET g == GetConn(u)
        p == PutConn(g.used, g.conn)
        done(ok, sc, n) == [ok |-> ok, schema |-> sc, used |-> p.used, acquired |-> 1,
                            puts |-> <<"idle">>,
                            putErrors |-> IF p.ok THEN 0 ELSE 1, stmts |-> n]
    IN  IF ~pool \/ ~g.ok
        THEN [ok |-> FALSE, schema |-> sch, used |-> u, acquired |-> 0,
              puts |-> <<>>, putErrors |-> 0, stmts |-> 0]
        ELSE IF fault \/ sch = "absent" THEN done(FALSE, sch, 1)
        ELSE done(TRUE, "full", 1)

\* The schema steps replaced by DROP TABLE and CREATE TABLE.
SchemaRows_Recreate(tbl, before, after) ==
    IF after = "absent" THEN tbl ELSE <<>>

\* The rows of kindle_logs after the schema steps took the table from
\* "before" to "after": CREATE TABLE IF NOT EXISTS makes an empty table only
\* when there was none, ALTER TABLE ADD COLUMN url TEXT keeps every row and
\* gives it a NULL url; otherwise nothing is touched.
SchemaRows(tbl, before, after) ==
    IF before = "absent" /\ after # "absent" THEN <<>>
    ELSE IF before = "nourl" /\ after = "full"
    THEN [i \in 1..Len(tbl) |-> [tbl[i] EXCEPT !.url = None]]
    ELSE tbl

\* Nothing was called.
Skipped(u, sch) ==
    [ok |-> FALSE, schema |-> sch, used |-> u, acquired |-> 0,
     puts |-> <<>>, putErrors |-> 0, stmts |-> 0]

\* /init-db: create_table_if_not_exists() and add_url_column_if_not_exists(),
\* the second only when the first returned True.
InitDb(f1, f2) ==
    /\ phase = "serving"
    /\ LET c == IF db_pool THEN CreateTable(db_pool, used, schema, f1)
                ELSE Skipped(used, schema)
           a == IF c.ok THEN AddUrlColumn(db_pool, c.used, c.schema, f2)
                ELSE Skipped(c.used, c.schema)
       IN  /\ schema' = a.schema
           /\ table' = SchemaRows(table, schema, a.schema)
           /\ used' = a.used
           /\ resp' = [NoResp EXCEPT !.op = "init-db",
                          !.status = IF c.ok /\ a.ok THEN 200 ELSE 500,
                          !.message = IF ~db_pool THEN "Database pool not initialized"
                                      ELSE IF c.ok /\ a.ok
                                      THEN "Table and column initialized successfully"
                                      ELSE "Failed to initialize table or column",
                          !.acquired = c.acquired + a.acquired,
                          !.puts = c.puts \o a.puts,
                          !.putErrors = c.putErrors + a.putErrors,
                          !.stmts = c.stmts + a.stmts]
    /\ UNCHANGED <<scn, database_url, phase, db_pool, req>>

\* --------------------------------------------------------------- startup
\* init_db_pool() that logs the missing DATABASE_URL and returns False
\* where the code raises ValueError.
InitDbPool_NoRaise(url, poolOk) ==
    IF ~url \/ ~poolOk THEN "False" ELSE "True"

\* init_db_pool(): ValueError without DATABASE_URL (the import fails), False
\* when the pool cannot be built, True otherwise.
InitDbPool(url, poolOk) ==
    IF ~url THEN "ValueError" ELSE IF poolOk THEN "True" ELSE "False"

\* The module-level block: init_db_pool(), then, when it returned True, both
\* schema steps, each whatever the other returned.
Startup(poolOk, f1, f2) ==
    /\ phase = "boot"
    /\ LET i == InitDbPool(database_url, poolOk)
           c == IF i = "True" THEN CreateTable(TRUE, used, schema, f1)
                ELSE Skipped(used, schema)
           a == IF i = "True" THEN AddUrlColumn(TRUE, c.used, c.schema, f2)
                ELSE Skipped(c.used, c.schema)
       IN  /\ phase' = IF i = "ValueError" THEN "aborted" ELSE "serving"
           /\ db_pool' = (i = "True")
           /\ schema' = a.schema
           /\ table' = SchemaRows(table, schema, a.schema)
           /\ used' = a.used
           /\ resp' = [NoResp EXCEPT !.op = "startup",
                          !.message = IF i = "ValueError"
                                      THEN "DATABASE_URL environment variable is not set"
                                      ELSE IF c.ok /\ a.ok THEN "ready"
                                      ELSE "Some features may not work.",
                          !.acquired = c.acquired + a.acquired,
                          !.puts = c.puts \o a.puts,
                          !.putErrors = c.putErrors + a.putErrors,
                          !.stmts = c.stmts + a.stmts]
    /\ UNCHANGED <<scn, database_url, req>>

\* ------------------------------------------------------- the state machine
\* Rows a table may hold before the process starts: ids ascending from one,
\* created_at not decreasing with the id, token and title non-empty, and no
\* url value while the url column does not exist.
Cells(sch) ==
    [token : StoredTokens, title : StoredTitles,
     url : IF sch = "full" THEN AllUrls ELSE {None}, step : {0, 1}]

TimeOf(f, i) ==
    LET RECURSIVE upto(_)
        upto(k) == IF k = 1 THEN 1 ELSE upto(k - 1) + f[k].step
    IN  upto(i)

InitTables(n, sch) ==
    IF sch = "absent" THEN {<<>>}
    ELSE UNION { { [i \in 1..k |->
                      [id |-> i, token |-> f[i].token, title |-> f[i].title,
                       url |-> f[i].url, created_at |-> TimeOf(f, i)]] :
                   f \in {g \in [1..k -> Cells(sch)] : k = 0 \/ g[1].step = 0} } :
                 k \in 0..n }

Init ==
    /\ scn \in Scenarios
    /\ database_url \in BOOLEAN
    /\ phase = "boot"
    /\ db_pool = FALSE
    /\ schema \in scn.schemas
    /\ table \in InitTables(scn.rows, schema)
    /\ used = 0
    /\ req = [s \in 1..scn.workers |-> Idle]
    /\ resp = NoResp

Next ==
    \/ \E poolOk, f1, f2 \in BOOLEAN : Startup(poolOk, f1, f2)
    \/ \E s \in Slots, token \in scn.tokens, title \in scn.titles, url \in scn.urls :
          SaveBegin(s, token, title, url)
    \/ \E s \in Slots, fault \in BOOLEAN, d \in {0, 1} :
          SaveFinish(s, fault, LastTime(table) + d)
    \/ \E s \in Slots, token \in scn.tokens : LogsBegin(s, token)
    \/ \E s \in Slots, fault \in BOOLEAN :
          \E rows \in SelectLogs(table, req[s].token) : LogsFinish(s, fault, rows)
    \/ \E f1, f2 \in BOOLEAN : InitDb(f1, f2)

Spec == Init /\ [][Next]_vars

\* ------------------------------------------------------------ properties
\* A token or title that is missing (None) or empty.
Missing(v) == v \in {None, ""}

\* The request's title and url are those of the newest entry of its token
\* (created_at, then id); an absent url equals only an absent url.
SameAsNewest(tbl, token, title, url) ==
    LET l == LastLog(tbl, token)
    IN  l # <<>> /\ l[1].title = title /\ l[1].url = url

\* Worker s finishes a /save in this step.
FinishesSave(s) == req[s].op = "save" /\ req'[s].op = "idle"

\* The step reports no storage failure and the table has all its columns.
StorageFine == schema = "full" /\ resp'.message # "Database error"

InFlight == {s \in Slots : req[s].op # "idle"}

\* C1: a /save with a non-empty token and title directly followed by a /logs
\* for the same token that succeeds: the first (newest) item returned has the
\* saved title.
C1_SaveThenListNewest ==
    (resp.op = "logs" /\ resp.after # None /\ resp.status = 200)
        => (resp.logs # <<>> /\ resp.logs[1].title = resp.after)

\* C2: a row that /save inserts never repeats the title and url of the entry
\* that precedes it in its token's history, and after the same /save is made
\* twice in a row the token's newest entry is that title and url, stored once
\* by the two calls.
C2_NoConsecutiveDuplicates ==
    (resp.op = "save" /\ resp.acquired = 1 /\ schema = "full"
        /\ resp.message # "Database error")
        => /\ resp.id > 0 =>
                LET rows == RowsOf(table, resp.token)
                    n == Len(rows)
                IN  n >= 1 /\ rows[n].id = resp.id
                    /\ (n >= 2 => <<rows[n - 1].title, rows[n - 1].url>>
                                      # <<rows[n].title, rows[n].url>>)
           /\ resp.again =>
                /\ SameAsNewest(table, resp.token, resp.title, resp.url)
                /\ resp.id = 0

\* C3: of two identical /save requests that are handled at the same time, the
\* first to finish leaves the title and url as the token's newest entry by
\* adding at most one row, and a /save that finishes when its title and url
\* are already the newest entry adds none: together they store one row.
C3_ConcurrentIdenticalSaves ==
    [][\A s \in Slots :
          (FinishesSave(s) /\ StorageFine) =>
              LET r == req[s]
                  peers == {x \in Slots \ {s} :
                              /\ req[x].op = "save" /\ req[x].token = r.token
                              /\ req[x].title = r.title /\ req[x].url = r.url}
              IN  /\ peers # {} =>
                        /\ SameAsNewest(table', r.token, r.title, r.url)
                        /\ Len(table') <= Len(table) + 1
                  /\ SameAsNewest(table, r.token, r.title, r.url) => table' = table]_vars

\* C4: a /save whose title and url are not those of the newest entry of its
\* token is stored as a new row, also when an older entry of the token has
\* the same title and url.
C4_NonConsecutiveDuplicateStored ==
    [][\A s \in Slots :
          (/\ FinishesSave(s) /\ StorageFine
           /\ ~SameAsNewest(table, req[s].token, req[s].title, req[s].url))
              => /\ Len(table') = Len(table) + 1
                 /\ SameAsNewest(table', req[s].token, req[s].title, req[s].url)]_vars

\* C5: a /save whose title and url are those of the newest entry of its token
\* is answered with status 200 and adds no row; it is never answered with an
\* error.
C5_SuppressedDuplicateIsSuccess ==
    [][\A s \in Slots :
          (/\ FinishesSave(s) /\ StorageFine
           /\ SameAsNewest(table, req[s].token, req[s].title, req[s].url))
              => (resp'.status = 200 /\ table' = table)]_vars

\* C6: in the duplicate check an absent url equals an absent url and never
\* the empty string: a /save with the newest entry's title adds no row when
\* both urls are absent, and adds a row when one url is absent and the other
\* is the empty string.
C6_NullUrlIsNotEmptyString ==
    [][\A s \in Slots :
          LET r == req[s]
              l == LastLog(table, r.token)
          IN  (/\ FinishesSave(s) /\ StorageFine
               /\ l # <<>> /\ l[1].title = r.title)
                  => /\ (l[1].url = None /\ r.url = None) => table' = table
                     /\ {l[1].url, r.url} = {None, ""} => Len(table') = Len(table) + 1]_vars

C8_SaveOutcomes ==
    [][/\ resp'.op = "save" =>
            \/ /\ resp'.status = 200 /\ resp'.id > 0
               /\ table' = Append(table,
                              [id |-> resp'.id, token |-> resp'.token,
                               title |-> resp'.title, url |-> resp'.url,
                               created_at |-> resp'.created_at])
            \/ resp'.status = 200 /\ resp'.id = 0 /\ table' = table
            \/ resp'.status \in {400, 500} /\ table' = table
       /\ resp'.op # "save" => table' = table]_vars

\* A /save that held a connection was answered with an error and the rows of
\* the table are still there.
C8_Witness ==
    /\ resp.op = "save" /\ resp.acquired = 1 /\ resp.status = 500
    /\ Len(table) = MaxRows

\* C9: the connections checked out are exactly those held by the requests
\* being handled, one each; an answered /save or /logs holds none: it handed
\* back every connection it acquired (at most one), once, and putconn never
\* failed; when no request is being handled no connection is checked out.
C9_ConnectionsReleased ==
    /\ used = Cardinality(InFlight)
    /\ \A s \in Slots : req[s].conn = IF s \in InFlight THEN 1 ELSE 0
    /\ resp.op \in {"save", "logs"} =>
          /\ resp.acquired \in {0, 1}
          /\ Len(resp.puts) = resp.acquired
          /\ resp.putErrors = 0
          /\ resp.stmts > 0 => resp.acquired = 1
    /\ InFlight = {} => used = 0

\* A /save failed while it held a connection, and after its response no
\* connection is checked out.
C9_Witness ==
    /\ resp.op = "save" /\ resp.acquired = 1 /\ resp.status = 500
    /\ resp.puts = <<"idle">> /\ used = 0

\* C10 as stated: never more than maxconn connections are checked out, and a
\* request that finds all of them checked out is not answered with an error.
C10_ExhaustedPoolBlocks ==
    /\ used <= maxconn
    /\ ~(resp.poolFull /\ resp.status = 500)

\* C10 as amended: never more than maxconn connections are checked out and
\* never more than maxconn requests hold one; a request that asks for a
\* connection while all are checked out does not wait: the step in which it
\* arrives answers it with status 500 ("Internal server error"), and it holds
\* no connection and has executed no statement.
C10_PoolBound ==
    /\ used <= maxconn
    /\ Cardinality(InFlight) <= maxconn
    /\ resp.poolFull =>
          /\ resp.op \in {"save", "logs"}
          /\ resp.status = 500 /\ resp.message = "Internal server error"
          /\ resp.acquired = 0 /\ resp.stmts = 0
          /\ used = maxconn

\* A /logs arrived while maxconn connections were checked out.
C10_Witness ==
    resp.op = "logs" /\ resp.poolFull /\ used = maxconn

\* C11: every connection handed back to the pool, after a storage failure or
\* otherwise, has no transaction open: the handler committed or rolled back
\* before it called putconn.
C11_RollbackBeforeRelease ==
    \A i \in 1..Len(resp.puts) : resp.puts[i] = "idle"

\* The entries of a token, in the order they were inserted.
Own(tbl, token) == SelectSeq(tbl, LAMBDA r : r.token = token)

\* C12: a /logs that succeeds returns exactly the entries of its token, each
\* once, newest first: created_at never increases along the list and an entry
\* inserted later (greater id) never comes after one inserted earlier, also
\* when the two have the same created_at.
C12_LogsNewestFirst ==
    (resp.op = "logs" /\ resp.status = 200) =>
        LET own == Own(table, resp.token)
            n == Len(resp.logs)
        IN  /\ n = Len(own)
            /\ {resp.logs[i].id : i \in 1..n} = {own[i].id : i \in 1..n}
            /\ \A i, j \in 1..n :
                  i < j => /\ resp.logs[i].created_at >= resp.logs[j].created_at
                           /\ resp.logs[i].id > resp.logs[j].id

\* C13 as stated: a /logs for a token with no entries, whose query runs,
\* answers 200 with an empty list, and a /logs without a token, or with an
\* empty one, is answered 400 and never reaches storage.
C13_MissingTokenIs400 ==
    resp.op = "logs" =>
        /\ Missing(resp.token) =>
              /\ resp.status = 400
              /\ resp.acquired = 0 /\ resp.stmts = 0
        /\ (~Missing(resp.token) /\ Own(table, resp.token) = <<>>
               /\ resp.acquired = 1 /\ schema = "full"
               /\ resp.message # "Database error")
              => (resp.status = 200 /\ resp.logs = <<>>)

\* C13: a /logs for a token with no entries, whose query runs, answers 200
\* with an empty list; a /logs without a token, or with an empty one, never
\* reaches storage and is answered 400 when the pool exists and 500 when the
\* pool could not be created.
C13_EmptyListAndMissingToken ==
    resp.op = "logs" =>
        /\ Missing(resp.token) =>
              /\ resp.status = IF db_pool THEN 400 ELSE 500
              /\ resp.message = IF db_pool THEN "Token missing"
                                ELSE "Database connection failed"
              /\ resp.acquired = 0 /\ resp.stmts = 0 /\ resp.puts = <<>>
        /\ (~Missing(resp.token) /\ Own(table, resp.token) = <<>>
               /\ resp.acquired = 1 /\ schema = "full"
               /\ resp.message # "Database error")
              => (resp.status = 200 /\ resp.logs = <<>>)

\* A /logs without a token was answered 400 while the table had rows.
C13_Witness ==
    /\ resp.op = "logs" /\ resp.token = None /\ resp.status = 400
    /\ table # <<>>

\* The step belongs to a /logs request.
LogsStep ==
    \/ resp'.op = "logs"
    \/ \E s \in Slots : req'[s] # req[s] /\ "logs" \in {req[s].op, req'[s].op}

\* C14: the log is append-only: no step removes or alters a stored entry
\* (every row stays at its place with all its fields), and a step of a /logs
\* request leaves the table as it was.
C14_AppendOnly ==
    [][/\ Len(table') >= Len(table)
       /\ \A i \in 1..Len(table) : table'[i] = table[i]
       /\ LogsStep => table' = table]_vars

\* An /init-db ran both schema steps with success on a table holding rows.
C14_Witness ==
    /\ resp.op = "init-db" /\ resp.status = 200
    /\ Len(table) = MaxRows

\* The step is a run of the schema steps, at startup or by /init-db, and
\* both steps returned True.
SchemaRunOk ==
    \/ resp'.op = "init-db" /\ resp'.status = 200
    \/ resp'.op = "startup" /\ resp'.message = "ready"

\* C15: schema initialisation is idempotent.  A run in which both steps
\* succeed, from a database without the table, with the table but no url
\* column, or with the full table, executed both statements and ends with the
\* full table (id, token, title, url, created_at); no run, failed or not,
\* changes a stored row or takes a column or the table away, so a run on the
\* full table changes nothing.
C15_SchemaIdempotent ==
    [][resp'.op \in {"init-db", "startup"} =>
          /\ SchemaRunOk => (schema' = "full" /\ resp'.stmts = 2)
          /\ schema' \in {schema, "full"}
          /\ table' = table]_vars

\* The schema steps succeeded at startup on a database that may have had
\* any of the three schemas and holds a row.
C15_Witness ==
    /\ resp.op = "startup" /\ resp.message = "ready" /\ resp.stmts = 2
    /\ schema = "full" /\ scn.schemas = Schemas /\ table # <<>>

\* C16: in every reachable state every stored entry has a non-empty token
\* and a non-empty title, and so has every /save that got past the
\* validation and holds a connection, the only source of new entries.
C16_NoEmptyTokenOrTitle ==
    /\ \A i \in 1..Len(table) :
          ~Missing(table[i].token) /\ ~Missing(table[i].title)
    /\ \A s \in Slots :
          req[s].op = "save" => ~Missing(req[s].token) /\ ~Missing(req[s].title)

\* A /save is past its validation while the table holds entries.
C16_Witness ==
    /\ table # <<>>
    /\ \E s \in Slots : req[s].op = "save" /\ req[s].conn = 1

\* C17: a request that supplies no token (a /logs, or a /save that has a
\* title) is not rejected for the lack of it: while the pool exists it is
\* served under a token the service generates, so it is not answered 400.
C17_MissingTokenGenerated ==
    (/\ resp.op \in {"save", "logs"}
     /\ resp.token = None
     /\ resp.op = "save" => ~Missing(resp.title)
     /\ db_pool)
        => resp.status # 400

\* The seven placeholders of the /save statement bound to the values their
\* positions stand for.
BoundAsWritten(token, title, url) ==
    [i \in 1..Len(SaveQuery) |->
        IF SaveQuery[i] = "token" THEN token
        ELSE IF SaveQuery[i] = "title" THEN title ELSE url]

\* C18: tokens are isolated.  A /logs that succeeds returns only entries
\* stored under its own token.  A /save that finishes leaves the entries of
\* every other token as they were, and its outcome is the one it would have
\* had with only its own token's entries in the table; the statement of
\* that /save, with its placeholders bound, inserts or suppresses on the
\* whole table exactly as it does on the token's own entries.
C18_TokenIsolation ==
    [][/\ (resp'.op = "logs" /\ resp'.status = 200) =>
             \A i \in 1..Len(resp'.logs) :
                 \E k \in 1..Len(table') :
                     /\ table'[k].id = resp'.logs[i].id
                     /\ table'[k].token = resp'.token
       /\ \A s \in Slots : FinishesSave(s) =>
             LET r == req[s]
                 own == Own(table, r.token)
             IN  /\ \A t \in AllTokens \ {r.token} : Own(table', t) = Own(table, t)
                 /\ \E fault \in BOOLEAN :
                       LET o == SaveTry(own, schema, r.token, r.title, r.url,
                                        fault, LastTime(table))
                       IN  /\ resp'.status = o.status
                           /\ resp'.message = o.message
                           /\ Len(table') - Len(table) = Len(o.table) - Len(own)
                 /\ LET p == BoundAsWritten(r.token, r.title, r.url)
                        whole == ConditionalInsert(table, p, LastTime(table))
                        alone == ConditionalInsert(own, p, LastTime(table))
                    IN  (whole.returning = <<>>) = (alone.returning = <<>>)]_vars

\* A /save for token a finished while the most recent row of the whole
\* table is an entry of token b with the same title and url.
C18_Witness ==
    /\ resp.op = "save" /\ resp.token = "a" /\ resp.acquired = 1
    /\ table # <<>>
    /\ table[Len(table)].token = "b"
    /\ table[Len(table)].title = resp.title
    /\ table[Len(table)].url = resp.url

\* C19: when DATABASE_URL is set and the pool cannot be built, startup
\* touches no storage and the process serves in a degraded state: every step
\* is a /save, /logs or /init-db answered 500 that acquires no connection,
\* executes no statement and leaves the table, the schema and the pool as
\* they are, for ever.  When DATABASE_URL is not set, the only step is the
\* startup that aborts, and no request is served.
C19_DegradedOrAborted ==
    [][/\ (phase = "boot" /\ database_url /\ ~db_pool') =>
             /\ phase' = "serving"
             /\ resp'.stmts = 0 /\ resp'.acquired = 0
             /\ UNCHANGED <<table, schema, used>>
       /\ (phase = "serving" /\ ~db_pool) =>
             /\ resp'.op \in {"save", "logs", "init-db"}
             /\ resp'.status = 500
             /\ resp'.acquired = 0 /\ resp'.stmts = 0 /\ resp'.puts = <<>>
             /\ UNCHANGED <<table, schema, used, db_pool, phase, req>>
       /\ ~database_url =>
             /\ phase = "boot" /\ phase' = "aborted"
             /\ resp'.op = "startup" /\ resp'.stmts = 0 /\ resp'.acquired = 0
             /\ UNCHANGED <<table, schema, used, db_pool, req>>]_vars

\* An /init-db was answered 500 in the degraded state, the table holding rows.
C19_Witness ==
    /\ phase = "serving" /\ database_url /\ ~db_pool
    /\ resp.op = "init-db" /\ resp.status = 500
    /\ table # <<>>

====
